---- MODULE Spec2Model ----
(***************************************************************************)
(* State-machine model of the review crawlers of                           *)
(* review_analysis/crawling (aladin_crawler.py, kyobo_crawler.py,          *)
(* yes24_crawler.py) as driven by review_analysis/crawling/main.py.        *)
(*                                                                         *)
(* The web site is the environment: a feed of review cards of which the    *)
(* browser shows a window (Aladin: everything loaded so far; Kyobo and     *)
(* Yes24: one page).  Texts are sequences of symbols, so that stripping    *)
(* and the composition of signatures are computed, not assumed.            *)
(***************************************************************************)
EXTENDS Integers, Sequences, FiniteSets, TLC

VARIABLES
    run,          \* the run's configuration: crawler class, constants, source
    pc,           \* position in main.py / scrape_reviews
    driver,       \* the browser session: "none", "open" or "quit"
    rows,         \* self.rows / self.reviews_data
    seen,         \* self.seen_ids / self._seen / seen
    rowIds,       \* history: the identity under which each row was admitted
    loaded,       \* Aladin: number of cards of the feed the page has loaded
    mode,         \* Aladin: "hundred" or "myreview"
    stagnation,   \* Aladin: _collect_loop's stagnation
    last_count,   \* Aladin: _collect_loop's last_count
    attempt,      \* Aladin: _click_more_and_wait's attempt (0 outside of it)
    slept,        \* history: the delays slept by a _click_more_and_wait that is
                  \* under way or has returned False
    batches,      \* history: extraction batches of the current _collect_loop
    idle,         \* history: its latest consecutive batches that admitted nothing
    stopped,      \* history: why the current _collect_loop was left
    entries,      \* history: the calls of _collect_loop of this scrape_reviews
    expansions,   \* history: the expansion passes of the current _collect_loop
    clicks,       \* history: the expand clicks of its expansion pass, until
                  \* the session is quit
    page_no,      \* Kyobo: scrape_reviews' page_no
    boundary,     \* history: len(rows) at Kyobo's last periodic checkpoint
    exhausted,    \* history: Kyobo's next-page action found no further page
    page,         \* Yes24: scrape_reviews' page
    csv,          \* the output file: <<>> while absent, else <<rows written>>
    writeFailed,  \* history: some write of the output file has failed
    plan,         \* main.py --all: the crawlers of the registry still to run
    finished,     \* history: the crawlers main.py has run to the end, in order
    col,          \* a MongoDB collection: the stored document of each _id
    last,         \* history: the last bulk upsert call
    repeated,     \* history: the last call repeated the call before it
    input,        \* the arguments of a call of a function taken by itself
    output,       \* what that call returned
    raw_col,      \* the documents of mongo_db["reviews_<site>"]
    out_col,      \* the _ids of mongo_db["preprocessed_reviews_<site>"]
    resp,         \* history: the latest answer of POST /review/preprocess/<site>
    node,         \* the chatbot graph: the node to run next, "END" or "raised"
    state,        \* the chatbot graph: the GraphState of the invocation
    trail         \* history: the nodes the invocation has run, in order

vars == <<run, pc, driver, rows, seen, rowIds, loaded, mode, stagnation,
          last_count, attempt, slept, batches, idle, stopped, entries, expansions,
          clicks, page_no, boundary, exhausted,
          page,
          csv, writeFailed, plan, finished, col, last, repeated, input, output,
          raw_col, out_col, resp, node, state, trail>>

collVars == <<rows, seen, rowIds>>
aladinVars ==
    <<loaded, mode, stagnation, last_count, attempt, slept, batches, idle, stopped,
      entries, expansions, clicks>>
kyoboVars == <<page_no, boundary, exhausted>>
fileVars == <<csv, writeFailed>>
crawlVars == <<run, pc, driver, collVars, aladinVars, kyoboVars, page, fileVars>>
mainVars == <<plan, finished>>
dbVars == <<col, last, repeated>>
fnVars == <<input, output>>
prepVars == <<raw_col, out_col, resp>>
graphVars == <<node, state, trail>>
restVars == <<fnVars, prepVars, graphVars>>
sideVars == <<mainVars, dbVars, restVars>>

-----------------------------------------------------------------------------
(* Bounds of the model *)

MaxFeed == 3        \* longest feed of an unconstrained source
MaxTarget == 2      \* the target of an unconstrained run
MaxStagnation == 2  \* the stagnation limit of an unconstrained run
MaxAttempts == 2    \* max_attempts handed to _click_more_and_wait
MaxClicks == 2      \* max_clicks of the expansion pass
MaxPage == 4        \* Yes24's page numbers are told apart up to this one

-----------------------------------------------------------------------------
(* Texts *)

Min(a, b) == IF a < b THEN a ELSE b

IsSpace(ch) == ch \in {" ", "nbsp"}

RECURSIVE LStrip(_)
LStrip(s) == IF s # <<>> /\ IsSpace(Head(s)) THEN LStrip(Tail(s)) ELSE s

RECURSIVE RStrip(_)
RStrip(s) ==
    IF s # <<>> /\ IsSpace(s[Len(s)]) THEN RStrip(SubSeq(s, 1, Len(s) - 1)) ELSE s

\* str.strip(): leading and trailing whitespace (U+00A0 included) removed
Strip(s) == RStrip(LStrip(s))

\* s.replace("\xa0", " ")
ReplaceNbsp(s) == [i \in 1..Len(s) |-> IF s[i] = "nbsp" THEN " " ELSE s[i]]

\* hashlib.md5(sig).hexdigest(): the digest stands for the text it was taken of
Md5(sig) == <<"md5">> \o sig

-----------------------------------------------------------------------------
(* The site: review cards as the DOM shows them *)

Card(pid, rating, date, content) ==
    [pid |-> pid, rating |-> rating, date |-> date, content |-> content]

Digit == <<"1", "2", "3", "4", "5", "6", "7", "8", "9">>

\* a well-formed review number i, distinct from every other one
Fresh(i) == Card(<<Digit[i]>>, <<"4">>, <<"d1">>, <<"a", Digit[i]>>)

FreshFeed(n) == [i \in 1..n |-> Fresh(i)]

\* what the three sites may show: cards with or without a page-assigned id,
\* padded or blank text, a missing date, a rating that is not a number
AladinCatalogue ==
    { Card(<<"1">>, <<"4">>, <<"d1">>, <<"a">>),      \* page-assigned id
      Card(<<>>,    <<"4">>, <<"d1">>, <<" ", "a">>), \* no id, padded text
      Card(<<"2">>, <<>>,    <<"d1">>, <<"nbsp">>),   \* blank text
      Card(<<"1">>, <<"4">>, <<>>,     <<"b">>) }     \* the id again, other fields

KyoboCatalogue ==
    { Card(<<>>, <<"4">>, <<"d1">>, <<"a">>),
      Card(<<>>, <<"4">>, <<"d2">>, <<" ", "a">>),    \* same text, other date
      Card(<<>>, <<>>,    <<"d1">>, <<"nbsp">>),      \* blank comment text
      Card(<<>>, <<"4">>, <<>>,     <<"b">>),         \* no date
      Card(<<>>, <<"x">>, <<"d2">>, <<"b">>) }        \* width not a number

Yes24Catalogue ==
    { Card(<<>>, <<"4">>, <<"d1">>, <<"a">>),
      Card(<<>>, <<"2">>, <<"d2">>, <<" ", "a">>),    \* same text, other date
      Card(<<>>, <<>>,    <<"d1">>, <<"nbsp">>),      \* blank text
      Card(<<>>, <<"x">>, <<"d2">>, <<"b">>) }        \* rating class not a number

RECURSIVE SeqsUpTo(_, _)
SeqsUpTo(S, n) ==
    IF n = 0 THEN {<<>>}
    ELSE LET shorter == SeqsUpTo(S, n - 1)
         IN  shorter \cup {Append(s, x) : s \in {t \in shorter : Len(t) = n - 1}, x \in S}

\* A source: the feed, how many cards one advance (or one page) brings,
\* whether it is reliable (every advance that can bring cards does, and no
\* element goes stale), whether a more-button is shown ("any": sometimes), and
\* what a page number past the last page shows ("nothing", or the "last" page
\* again).
Source(feed, step, reliable, btn, past) ==
    [feed |-> feed, step |-> step, reliable |-> reliable, btn |-> btn, past |-> past]

FreeSources(catalogue, pasts) ==
    {Source(f, s, FALSE, "any", p) :
        f \in SeqsUpTo(catalogue, MaxFeed), s \in 1..2, p \in pasts}

\* the positions of a batch of n cards whose parse raises: none, or one
StaleSets(n) == {{}} \cup {{i} : i \in 1..n}

feed == run.src.feed

\* the same, of the run's source
Stale(n) == IF run.src.reliable THEN {{}} ELSE StaleSets(n)

Run(crawler, target, limit, src) ==
    [crawler |-> crawler, target |-> target, stagLimit |-> limit, src |-> src]

\* python main.py -c aladin: a small target and limit on any small source,
\* and the three sources of the collector's scenarios
AladinRuns ==
    {Run("aladin", MaxTarget, MaxStagnation, s) :
        s \in FreeSources(AladinCatalogue, {"nothing"})}
    \cup { Run("aladin", 5, 3, Source(FreshFeed(6), 3, TRUE, "yes", "nothing")),
           Run("aladin", 10, 3, Source(FreshFeed(2), 2, TRUE, "any", "nothing")),
           Run("aladin", 10, 3, Source(FreshFeed(5), 5, TRUE, "no", "nothing")) }

\* python main.py -c kyobo; the last source has more pages than a checkpoint
\* period
KyoboRuns ==
    {Run("kyobo", MaxTarget, 0, s) : s \in FreeSources(KyoboCatalogue, {"nothing"})}
    \cup { Run("kyobo", 10, 0, Source(FreshFeed(5), 1, FALSE, "any", "nothing")),
           \* one page of two reviews that differ in their rating only
           Run("kyobo", 10, 0,
               Source(<<Card(<<>>, <<"4">>, <<"d1">>, <<"a">>),
                        Card(<<>>, <<"2">>, <<"d1">>, <<"a">>)>>,
                      2, TRUE, "any", "nothing")) }

\* python main.py -c yes24
Yes24Runs ==
    {Run("yes24", MaxTarget, 0, s) :
        s \in FreeSources(Yes24Catalogue, {"nothing", "last"})}

TARGET_COUNT == run.target
STAGNATION_LIMIT == run.stagLimit
MORE_MAX_ATTEMPTS == MaxAttempts

-----------------------------------------------------------------------------
(* AladinCrawler *)

\* _find_review_cards: the cards the page has loaded
AladinCards == SubSeq(feed, 1, loaded)

\* _extract_rating: the number of lit stars, "" when there is none
AladinRating(card) == IF card.rating = <<"x">> THEN <<>> ELSE card.rating

\* _parse_one_card: the row and its identity
Aladin_parse_one_card(card) ==
    LET date == Strip(ReplaceNbsp(card.date))
        rating == AladinRating(card)
        content == Strip(ReplaceNbsp(card.content))
        sig == date \o <<"|">> \o rating \o <<"|">> \o content
    IN  [row |-> [rating |-> rating, date |-> date, content |-> content],
         rid |-> IF card.pid # <<>> THEN card.pid ELSE Md5(sig)]

\* _extract_from_cards without "if rid in self.seen_ids: continue"
Aladin_extract_one_unseen(st, card, bad) ==
    IF Len(st.rows) >= TARGET_COUNT \/ bad THEN st
    ELSE LET p == Aladin_parse_one_card(card)
         IN  IF p.rid = <<>> \/ p.row.content = <<>> THEN st
             ELSE [rows |-> Append(st.rows, p.row),
                   seen |-> st.seen \cup {p.rid},
                   ids |-> Append(st.ids, p.rid)]

\* _extract_from_cards without "if not row.content: continue"
Aladin_extract_one_blank(st, card, bad) ==
    IF Len(st.rows) >= TARGET_COUNT \/ bad THEN st
    ELSE LET p == Aladin_parse_one_card(card)
         IN  IF p.rid = <<>> \/ p.rid \in st.seen THEN st
             ELSE [rows |-> Append(st.rows, p.row),
                   seen |-> st.seen \cup {p.rid},
                   ids |-> Append(st.ids, p.rid)]

\* _extract_from_cards without the break at TARGET_COUNT
Aladin_extract_one_untargeted(st, card, bad) ==
    IF bad THEN st
    ELSE LET p == Aladin_parse_one_card(card)
         IN  IF p.rid = <<>> \/ p.row.content = <<>> \/ p.rid \in st.seen THEN st
             ELSE [rows |-> Append(st.rows, p.row),
                   seen |-> st.seen \cup {p.rid},
                   ids |-> Append(st.ids, p.rid)]

\* _extract_from_cards with rows.insert(0, row) in place of rows.append(row)
Aladin_extract_one_prepend(st, card, bad) ==
    IF Len(st.rows) >= TARGET_COUNT \/ bad THEN st
    ELSE LET p == Aladin_parse_one_card(card)
         IN  IF p.rid = <<>> \/ p.row.content = <<>> \/ p.rid \in st.seen THEN st
             ELSE [rows |-> <<p.row>> \o st.rows,
                   seen |-> st.seen \cup {p.rid},
                   ids |-> <<p.rid>> \o st.ids]

\* one pass of the loop body of _extract_from_cards over a card; st is
\* (rows, seen_ids, the identities of rows); bad: parsing the card raises
Aladin_extract_one(st, card, bad) ==
    IF Len(st.rows) >= TARGET_COUNT \/ bad THEN st
    ELSE LET p == Aladin_parse_one_card(card)
         IN  IF p.rid = <<>> \/ p.row.content = <<>> \/ p.rid \in st.seen THEN st
             ELSE [rows |-> Append(st.rows, p.row),
                   seen |-> st.seen \cup {p.rid},
                   ids |-> Append(st.ids, p.rid)]

RECURSIVE Aladin_extract_from(_, _, _, _)
Aladin_extract_from(st, cards, i, stale) ==
    IF i > Len(cards) THEN st
    ELSE Aladin_extract_from(Aladin_extract_one(st, cards[i], i \in stale),
                             cards, i + 1, stale)

\* _extract_from_cards(cards): stale are the positions whose parse raises
Aladin_extract_from_cards(cards, stale) ==
    Aladin_extract_from([rows |-> rows, seen |-> seen, ids |-> rowIds], cards, 1, stale)

\* _visible_card_signatures
Aladin_visible_card_signatures(cards) ==
    {IF cards[i].pid # <<>> THEN <<"id:">> \o cards[i].pid
     ELSE Md5(Strip(cards[i].date \o cards[i].rating \o cards[i].content)) :
        i \in {j \in 1..Len(cards) :
                  cards[j].pid # <<>>
                  \/ Strip(cards[j].date \o cards[j].rating \o cards[j].content) # <<>>}}

\* an attempt judged by the wait having ended, not by what the page shows
Aladin_changed_by_timer(before, after) == TRUE

\* changed(), the success test of one attempt of _click_more_and_wait
Aladin_changed(before, after) ==
    \/ Len(after) > Len(before)
    \/ Aladin_visible_card_signatures(after)
          \ Aladin_visible_card_signatures(before) # {}



\* entering _collect_loop(mode) on a page that has loaded its first cards
AladinEnterLoop(m) ==
    /\ mode' = m
    /\ loaded' = Min(run.src.step, Len(feed))
    /\ stagnation' = 0
    /\ last_count' = Len(rows)
    /\ batches' = 0
    /\ idle' = 0
    /\ stopped' = "none"
    /\ attempt' = 0
    /\ slept' = <<>>
    /\ entries' = entries + 1
    /\ expansions' = 0
    /\ clicks' = 0
    /\ pc' = "extract"

\* scrape_reviews up to the first _collect_loop
AladinStart ==
    /\ UNCHANGED sideVars
    /\ run.crawler = "aladin" /\ pc = "start"
    /\ driver' = "open"
    /\ UNCHANGED <<run, collVars, kyoboVars, page, fileVars>>
    /\ \/ AladinEnterLoop("hundred")
       \/ \* driver.get(TARGET_URL) raises
          /\ pc' = "raised"
          /\ UNCHANGED aladinVars

\* a stagnation counter that is never raised
Aladin_stagnation_never(n) == 0

\* the stagnation counter after a batch that left n rows
Aladin_stagnation(n) == IF n = last_count THEN stagnation + 1 ELSE 0

\* the loop body of _collect_loop up to _click_more_and_wait
AladinExtract ==
    /\ UNCHANGED sideVars
    /\ run.crawler = "aladin" /\ pc = "extract"
    /\ UNCHANGED <<run, driver, loaded, mode, entries, expansions, clicks, kyoboVars,
                   page, fileVars>>
    /\ \/ \E stale \in Stale(loaded) :
            LET st == Aladin_extract_from_cards(AladinCards, stale)
                n == Len(st.rows)
            IN  /\ rows' = st.rows
                /\ seen' = st.seen
                /\ rowIds' = st.ids
                /\ batches' = batches + 1
                /\ idle' = IF st.rows = rows THEN idle + 1 ELSE 0
                /\ stagnation' = Aladin_stagnation(n)
                /\ last_count' = n
                /\ IF n >= TARGET_COUNT
                   THEN /\ pc' = "after_loop" /\ stopped' = "target"
                        /\ attempt' = 0 /\ slept' = slept
                   ELSE /\ pc' = "more" /\ stopped' = stopped
                        /\ attempt' = 1 /\ slept' = <<>>
       \/ \* _find_review_cards raises (the session died)
          /\ pc' = "raised"
          /\ UNCHANGED <<collVars, stagnation, last_count, attempt, slept, batches,
                         idle, stopped>>

\* the stagnation check with > in place of >=
Aladin_after_more_late(ok) ==
    /\ attempt' = 0
    /\ IF ~ok
       THEN pc' = "after_loop" /\ stopped' = "exhausted"
       ELSE IF stagnation > STAGNATION_LIMIT
            THEN pc' = "after_loop" /\ stopped' = "stagnation"
            ELSE pc' = "extract" /\ stopped' = stopped

\* what _collect_loop does once _click_more_and_wait has returned ok
Aladin_after_more(ok) ==
    /\ attempt' = 0
    /\ IF ~ok
       THEN pc' = "after_loop" /\ stopped' = "exhausted"
       ELSE IF stagnation >= STAGNATION_LIMIT
            THEN pc' = "after_loop" /\ stopped' = "stagnation"
            ELSE pc' = "extract" /\ stopped' = stopped

\* backoff, the delays of _click_more_and_wait in seconds
backoff == <<2, 4, 8, 12, 20, 30, 45, 60>>

\* the same delay after every attempt
Aladin_backoff_flat(k) == backoff[1]

\* backoff[min(attempt - 1, len(backoff) - 1)], the delay after attempt k
Aladin_backoff(k) == backoff[Min(k - 1, Len(backoff) - 1) + 1]

\* giving up only once max_attempts is used up, button or not
Aladin_more_gives_up_late(has_more_btn) == attempt >= MORE_MAX_ATTEMPTS

\* _click_more_and_wait returns False after a timed-out attempt
Aladin_more_gives_up(has_more_btn) ==
    ~has_more_btn \/ attempt >= MORE_MAX_ATTEMPTS

\* one attempt of _click_more_and_wait; at its return, the rest of the loop
\* body of _collect_loop
AladinMore ==
    /\ UNCHANGED sideVars
    /\ run.crawler = "aladin" /\ pc = "more"
    /\ UNCHANGED <<run, driver, collVars, mode, stagnation, last_count, batches,
                   idle, entries, expansions, clicks, kyoboVars, page, fileVars>>
    /\ \/ \E has_more_btn \in BOOLEAN, brings \in BOOLEAN :
            /\ run.src.btn = "yes" => has_more_btn
            /\ run.src.btn = "no" => ~has_more_btn
            /\ run.src.reliable => brings
            /\ loaded' = IF brings THEN Min(loaded + run.src.step, Len(feed))
                                   ELSE loaded
            /\ IF Aladin_changed(AladinCards, SubSeq(feed, 1, loaded'))
               THEN Aladin_after_more(TRUE) /\ slept' = <<>>
               ELSE \* TimeoutException: the backoff is slept unless the
                    \* button is missing
                    /\ slept' = IF has_more_btn
                                THEN Append(slept, Aladin_backoff(attempt))
                                ELSE slept
                    /\ IF Aladin_more_gives_up(has_more_btn)
                       THEN Aladin_after_more(FALSE)
                       ELSE \* the next attempt
                            attempt' = attempt + 1 /\ UNCHANGED <<pc, stopped>>
       \/ \* _find_review_cards raises (the session died)
          /\ pc' = "raised"
          /\ UNCHANGED <<loaded, attempt, slept, stopped>>

\* the end of _collect_loop("hundred") and the fallback of scrape_reviews
AladinFallback ==
    /\ UNCHANGED sideVars
    /\ run.crawler = "aladin" /\ pc = "after_loop" /\ mode = "hundred"
    /\ UNCHANGED <<run, driver, collVars, kyoboVars, page, fileVars>>
    /\ IF Len(rows) < TARGET_COUNT
       THEN AladinEnterLoop("myreview")
       ELSE pc' = "quit" /\ UNCHANGED aladinVars

\* the expand clicks with no limit to their number
Aladin_expand_clicks_all(links, max_clicks) == links

\* _expand_visible_myreview_contents: the clicks made on a page of which
\* `links` cards have an expand link
Aladin_expand_clicks(links, max_clicks) == Min(links, max_clicks)

\* the expansion pass that ends _collect_loop("myreview")
AladinExpand ==
    /\ UNCHANGED sideVars
    /\ run.crawler = "aladin" /\ pc = "after_loop" /\ mode = "myreview"
    /\ pc' = "quit"
    /\ UNCHANGED <<run, driver, loaded, mode, stagnation, last_count, attempt, slept,
                   batches, idle, stopped, entries, kyoboVars, page, fileVars>>
    /\ IF Len(rows) < TARGET_COUNT
       THEN /\ expansions' = expansions + 1
            /\ \E links \in 0..loaded :
                  clicks' = Aladin_expand_clicks(links, MaxClicks)
            /\ \/ \E stale \in Stale(loaded) :
                     LET st == Aladin_extract_from_cards(AladinCards, stale)
                     IN  rows' = st.rows /\ seen' = st.seen /\ rowIds' = st.ids
               \/ \* an exception of the pass is swallowed
                  UNCHANGED collVars
       ELSE UNCHANGED <<collVars, expansions, clicks>>

\* driver.quit() at the end of scrape_reviews
AladinQuit ==
    /\ UNCHANGED sideVars
    /\ run.crawler = "aladin" /\ pc = "quit"
    /\ driver' = "quit"
    /\ pc' = "returned"
    /\ slept' = <<>> /\ clicks' = 0
    /\ UNCHANGED <<run, collVars, loaded, mode, stagnation, last_count, attempt,
                   batches, idle, stopped, entries, expansions, kyoboVars, page,
                   fileVars>>

-----------------------------------------------------------------------------
(* The output file *)

\* the file after a write of rs that completed
WriteDone(rs) == csv' = <<rs>> /\ writeFailed' = writeFailed

\* the file after a write of rs that raised: untouched, or cut short
WriteRaised(rs) ==
    /\ writeFailed' = TRUE
    /\ \/ csv' = csv
       \/ \E k \in 0..(Len(rs) - 1) : csv' = <<SubSeq(rs, 1, k)>>

-----------------------------------------------------------------------------
(* KyoboCrawler *)

KyoboTarget == run.target
checkpoint_every_pages == 3

\* the .comment_item elements of page p of the review list
KyoboItems(p) ==
    SubSeq(feed, (p - 1) * run.src.step + 1, Min(p * run.src.step, Len(feed)))

\* _first_review_marker: the text of the first item of page p
Kyobo_first_review_marker(p) ==
    Strip(KyoboItems(p)[1].date \o KyoboItems(p)[1].content)

\* _parse_review with _extract_date and _extract_rating_10: no row without a
\* date; "error" is the ValueError of float() on a width that is no number
Kyobo_parse_review(card) ==
    IF card.date = <<>> THEN [kind |-> "none"]
    ELSE IF card.rating = <<"x">> THEN [kind |-> "error"]
    ELSE [kind |-> "row",
          row |-> [rating |-> IF card.rating = <<>> THEN <<"0.0">> ELSE card.rating,
                   date |-> card.date,
                   content |-> Strip(card.content)]]

\* the loop body of _scrape_current_page over one item; st.raised: an
\* exception other than StaleElementReferenceException has left the loop
Kyobo_scrape_one(st, card, bad) ==
    IF st.raised \/ Len(st.rows) >= KyoboTarget \/ bad THEN st
    ELSE LET r == Kyobo_parse_review(card)
         IN  IF r.kind = "error" THEN [st EXCEPT !.raised = TRUE]
             ELSE IF r.kind = "none" THEN st
             ELSE LET key == <<r.row.date, r.row.content>>
                  IN  IF key \in st.seen THEN st
                      ELSE [st EXCEPT !.rows = Append(@, r.row),
                                      !.seen = @ \cup {key},
                                      !.ids = Append(@, key)]

RECURSIVE Kyobo_scrape_from(_, _, _, _)
Kyobo_scrape_from(st, items, i, stale) ==
    IF i > Len(items) THEN st
    ELSE Kyobo_scrape_from(Kyobo_scrape_one(st, items[i], i \in stale),
                           items, i + 1, stale)

\* _scrape_current_page(target) on the items of the current page
Kyobo_scrape_current_page(items, stale) ==
    Kyobo_scrape_from([rows |-> rows, seen |-> seen, ids |-> rowIds, raised |-> FALSE],
                      items, 1, stale)

\* _move_to_next_page from page p returns (the first item's text changed)
Kyobo_move_ok(p) ==
    /\ KyoboItems(p + 1) # <<>>
    /\ Kyobo_first_review_marker(p + 1) # Kyobo_first_review_marker(p)

\* start_browser: the session, then driver.get(BASE_URL), outside of the try
KyoboStart ==
    /\ UNCHANGED sideVars
    /\ run.crawler = "kyobo" /\ pc = "start"
    /\ driver' = "open"
    /\ UNCHANGED <<run, collVars, aladinVars, kyoboVars, page, fileVars>>
    /\ \/ pc' = "k_open"
       \/ \* driver.get(BASE_URL) raises
          pc' = "raised"

\* _open_review_tab and _set_sort_order
KyoboOpen ==
    /\ UNCHANGED sideVars
    /\ run.crawler = "kyobo" /\ pc = "k_open"
    /\ UNCHANGED <<run, driver, collVars, aladinVars, kyoboVars, page, fileVars>>
    /\ \/ KyoboItems(1) # <<>> /\ pc' = "k_page"
       \/ \* a wait of either times out
          pc' = "k_except"

\* a checkpoint that writes nothing
Kyobo_save_checkpoint_skipped(rs) == UNCHANGED fileVars

\* _save_checkpoint: a failed write is logged and swallowed
Kyobo_save_checkpoint(rs) == WriteDone(rs) \/ WriteRaised(rs)

\* one iteration of the while loop of scrape_reviews
KyoboPage ==
    /\ UNCHANGED sideVars
    /\ run.crawler = "kyobo" /\ pc = "k_page"
    /\ page_no' = page_no + 1
    /\ UNCHANGED <<run, driver, aladinVars, page>>
    /\ \/ \E stale \in Stale(Len(KyoboItems(page_no'))), arrives \in BOOLEAN :
            LET st == Kyobo_scrape_current_page(KyoboItems(page_no'), stale)
            IN  /\ run.src.reliable => arrives
                /\ rows' = st.rows /\ seen' = st.seen /\ rowIds' = st.ids
                /\ exhausted' = ( /\ ~st.raised
                                  /\ Len(st.rows) < KyoboTarget
                                  /\ ~Kyobo_move_ok(page_no') )
                /\ IF st.raised
                   THEN pc' = "k_except" /\ UNCHANGED <<boundary, fileVars>>
                   ELSE IF Len(st.rows) >= KyoboTarget
                        THEN pc' = "k_save" /\ UNCHANGED <<boundary, fileVars>>
                        ELSE IF ~(arrives /\ Kyobo_move_ok(page_no'))
                             THEN \* _move_to_next_page times out
                                  pc' = "k_except" /\ UNCHANGED <<boundary, fileVars>>
                             ELSE /\ pc' = "k_page"
                                  /\ IF page_no' % checkpoint_every_pages = 0
                                     THEN /\ Kyobo_save_checkpoint(st.rows)
                                          /\ boundary' = Len(st.rows)
                                     ELSE UNCHANGED <<boundary, fileVars>>
       \/ \* the wait for the items of the page times out
          /\ pc' = "k_except"
          /\ UNCHANGED <<collVars, boundary, exhausted, fileVars>>

\* save_to_database() at the end of the try block
KyoboSave ==
    /\ UNCHANGED sideVars
    /\ run.crawler = "kyobo" /\ pc = "k_save"
    /\ UNCHANGED <<run, driver, collVars, aladinVars, kyoboVars, page>>
    /\ \/ WriteDone(rows) /\ pc' = "k_finally"
       \/ WriteRaised(rows) /\ pc' = "k_except"

\* the handler with the shutdown before the checkpoint
KyoboExcept_shutdown_first ==
    /\ UNCHANGED sideVars
    /\ run.crawler = "kyobo" /\ pc = "k_except"
    /\ driver' = "quit"
    /\ Kyobo_save_checkpoint(rows)
    /\ pc' = "k_finally_raise"
    /\ UNCHANGED <<run, collVars, aladinVars, kyoboVars, page>>

\* except Exception: _save_checkpoint(); raise
KyoboExcept ==
    /\ UNCHANGED sideVars
    /\ run.crawler = "kyobo" /\ pc = "k_except"
    /\ Kyobo_save_checkpoint(rows)
    /\ pc' = "k_finally_raise"
    /\ UNCHANGED <<run, driver, collVars, aladinVars, kyoboVars, page>>

\* finally: _shutdown(), then scrape_reviews returns or the exception goes on
KyoboShutdown ==
    /\ UNCHANGED sideVars
    /\ run.crawler = "kyobo" /\ pc \in {"k_finally", "k_finally_raise"}
    /\ driver' = "quit"
    /\ pc' = IF pc = "k_finally" THEN "returned" ELSE "raised"
    /\ UNCHANGED <<run, collVars, aladinVars, kyoboVars, page, fileVars>>

-----------------------------------------------------------------------------
(* Yes24Crawler *)

target_count == run.target

\* the page of the review list that PageNumber=p shows
Yes24Items(p) ==
    LET n == Len(feed)
        lastPage == ((n - 1) \div run.src.step) + 1
        q == IF (p - 1) * run.src.step < n THEN p
             ELSE IF run.src.past = "last" /\ n > 0 THEN lastPage ELSE 0
    IN  IF q = 0 THEN <<>>
        ELSE SubSeq(feed, (q - 1) * run.src.step + 1, Min(q * run.src.step, n))

\* str(int(cls.split("_")[-1]) // 2) of the class total_rating_<2n>
Yes24Half(rating) ==
    IF rating = <<"4">> THEN <<"2">> ELSE IF rating = <<"2">> THEN <<"1">> ELSE <<"0">>

\* the loop body with the try around the for loop, not inside of it
Yes24_scrape_one_abort(st, card) ==
    IF st.done THEN st
    ELSE IF card.rating = <<"x">> THEN [st EXCEPT !.done = TRUE]
    ELSE LET rating == IF card.rating = <<>> THEN <<"5">> ELSE Yes24Half(card.rating)
             date == Strip(card.date)
             content == Strip(card.content)
             got == IF content # <<>> /\ content \notin st.seen
                    THEN [st EXCEPT
                            !.rows = Append(@, [rating |-> rating, date |-> date,
                                                content |-> content]),
                            !.seen = @ \cup {content},
                            !.ids = Append(@, content)]
                    ELSE st
         IN  [got EXCEPT !.done = Len(got.rows) >= target_count]

\* the loop body over one review group; st.done: the break at the target
Yes24_scrape_one(st, card) ==
    IF st.done THEN st
    ELSE IF card.rating = <<"x">> THEN st      \* int() raises: logged, next group
    ELSE LET rating == IF card.rating = <<>> THEN <<"5">> ELSE Yes24Half(card.rating)
             date == Strip(card.date)
             content == Strip(card.content)
             got == IF content # <<>> /\ content \notin st.seen
                    THEN [st EXCEPT
                            !.rows = Append(@, [rating |-> rating, date |-> date,
                                                content |-> content]),
                            !.seen = @ \cup {content},
                            !.ids = Append(@, content)]
                    ELSE st
         IN  [got EXCEPT !.done = Len(got.rows) >= target_count]

RECURSIVE Yes24_scrape_from(_, _, _)
Yes24_scrape_from(st, groups, i) ==
    IF i > Len(groups) THEN st
    ELSE Yes24_scrape_from(Yes24_scrape_one(st, groups[i]), groups, i + 1)

\* the for loop over the review groups of one page
Yes24_scrape_page(groups) ==
    Yes24_scrape_from([rows |-> rows, seen |-> seen, ids |-> rowIds, done |-> FALSE],
                      groups, 1)

\* scrape_reviews up to the while loop
Yes24Start ==
    /\ UNCHANGED sideVars
    /\ run.crawler = "yes24" /\ pc = "start"
    /\ driver' = "open"
    /\ UNCHANGED <<run, collVars, aladinVars, kyoboVars, fileVars>>
    /\ \/ pc' = "y_page" /\ page' = 1
       \/ \* the product page fails to load: logged, return
          pc' = "returned" /\ page' = page

\* page += 1.  Every feed has at most MaxPage - 1 pages, and from its last
\* page on a source shows the same thing for every page number, so the page
\* numbers above MaxPage are counted as MaxPage - 1 and MaxPage in turn
Yes24_next_page(p) == IF p < MaxPage THEN p + 1 ELSE MaxPage - 1

\* one iteration of the while loop of scrape_reviews
Yes24Page ==
    /\ UNCHANGED sideVars
    /\ run.crawler = "yes24" /\ pc = "y_page"
    /\ UNCHANGED <<run, driver, aladinVars, kyoboVars, fileVars>>
    /\ \/ /\ Yes24Items(page) # <<>>
          /\ LET st == Yes24_scrape_page(Yes24Items(page))
             IN  /\ rows' = st.rows /\ seen' = st.seen /\ rowIds' = st.ids
                 /\ page' = Yes24_next_page(page)
                 /\ pc' = IF Len(st.rows) < target_count THEN "y_page" ELSE "y_quit"
       \/ \* the page fails to load, or shows no review: break
          /\ pc' = "y_quit"
          /\ UNCHANGED <<collVars, page>>

\* driver.quit() after the loop
Yes24Quit ==
    /\ UNCHANGED sideVars
    /\ run.crawler = "yes24" /\ pc = "y_quit"
    /\ driver' = "quit"
    /\ pc' = "returned"
    /\ UNCHANGED <<run, collVars, aladinVars, kyoboVars, page, fileVars>>

RECURSIVE Yes24Dedup(_, _)
\* save_to_database's pass over reviews_data: first row of each content
Yes24Dedup(rs, contents) ==
    IF rs = <<>> THEN <<>>
    ELSE IF Head(rs).content # <<>> /\ Head(rs).content \notin contents
         THEN <<Head(rs)>> \o Yes24Dedup(Tail(rs), contents \cup {Head(rs).content})
         ELSE Yes24Dedup(Tail(rs), contents)

-----------------------------------------------------------------------------
(* main.py *)

\* crawler.save_to_database() once scrape_reviews has returned; an exception
\* of it ends the process
MainSave ==
    /\ UNCHANGED sideVars
    /\ pc = "returned"
    /\ UNCHANGED <<run, driver, collVars, aladinVars, kyoboVars, page>>
    /\ IF run.crawler = "yes24"
       THEN IF rows = <<>>
            THEN pc' = "done" /\ UNCHANGED fileVars
            ELSE \/ WriteDone(Yes24Dedup(rows, {})) /\ pc' = "done"
                 \/ WriteRaised(Yes24Dedup(rows, {})) /\ pc' = "raised"
       ELSE \/ WriteDone(rows) /\ pc' = "done"
            \/ WriteRaised(rows) /\ pc' = "raised"

-----------------------------------------------------------------------------
(* The MongoDB collections written by seed_reviews_to_mongo.py and by       *)
(* review_router.py                                                         *)

MaxDocs == 2        \* most documents handed to one bulk upsert call

\* the _id values and the other field values of the documents
Ids == {"i1", "i2"}
Fields == {"a", "b"}

\* a document d: d["_id"] and the rest of its fields
Doc(id, fields) == [id |-> id, fields |-> fields]

\* the documents handed to the calls: two of one _id that differ in their
\* fields, and one of another _id
Docs == {Doc("i1", "a"), Doc("i1", "b"), Doc("i2", "a")}

\* a collection stores at most one document under an _id
EmptyCollection == [i \in Ids |-> "absent"]

\* no bulk upsert call yet
NoCall == [fn |-> "none"]

\* the orders in which the server may work through n unordered operations
Orders(n) ==
    {o \in [1..n -> 1..n] : \A i, j \in 1..n : i # j => o[i] # o[j]}

\* UpdateOne with $set in place of $setOnInsert
Mongo_update_one_set(st, d) ==
    IF st.col[d.id] # "absent"
    THEN [st EXCEPT !.col[d.id] = d.fields, !.matched = @ + 1]
    ELSE [st EXCEPT !.col[d.id] = d.fields, !.inserted = @ + 1]

\* UpdateOne without upsert=True
Mongo_update_one_no_upsert(st, d) ==
    IF st.col[d.id] # "absent"
    THEN [st EXCEPT !.matched = @ + 1]
    ELSE st

\* UpdateOne({"_id": d["_id"]}, {"$setOnInsert": d}, upsert=True) as the
\* server applies it: st is (collection, upserted_count, matched_count)
Mongo_update_one(st, d) ==
    IF st.col[d.id] # "absent"
    THEN [st EXCEPT !.matched = @ + 1]
    ELSE [st EXCEPT !.col[d.id] = d.fields, !.inserted = @ + 1]

\* col.bulk_write(ops, ordered=False): the first k operations of order o
RECURSIVE Mongo_bulk_write(_, _, _, _)
Mongo_bulk_write(st, docs, o, k) ==
    IF k = 0 THEN st
    ELSE Mongo_update_one(Mongo_bulk_write(st, docs, o, k - 1), docs[o[k]])

\* the documents of a call, as a set
DocSet(call) == {call.docs[i] : i \in 1..Len(call.docs)}

\* the documents of a call have pairwise different _id
DistinctIds(call) ==
    \A i, j \in 1..Len(call.docs) : i # j => call.docs[i].id # call.docs[j].id

\* call b, made right after call a, is a with the same set of documents of
\* pairwise different _id, none of which was stored before a; both returned
Repeats(a, b) ==
    /\ a.fn # "none" /\ a.result = "returned" /\ b.result = "returned"
    /\ DocSet(a) = DocSet(b)
    /\ DistinctIds(a) /\ DistinctIds(b)
    /\ \A d \in DocSet(a) : a.before[d.id] = "absent"

\* a bulk upsert call of function fn with docs: it returns the counts, or
\* bulk_write raises with some of the operations applied
BulkUpsert(fn, docs) ==
    /\ \E o \in Orders(Len(docs)) :
          \/ LET st == Mongo_bulk_write([col |-> col, inserted |-> 0, matched |-> 0],
                                        docs, o, Len(docs))
             IN  /\ col' = st.col
                 /\ last' = [fn |-> fn, docs |-> docs, result |-> "returned",
                             inserted |-> st.inserted, matched |-> st.matched,
                             before |-> col, after |-> st.col]
          \/ \E k \in 0..(Len(docs) - 1) :
                LET st == Mongo_bulk_write([col |-> col, inserted |-> 0, matched |-> 0],
                                           docs, o, k)
                IN  /\ col' = st.col
                    /\ last' = [fn |-> fn, docs |-> docs, result |-> "raised",
                                inserted |-> 0, matched |-> 0,
                                before |-> col, after |-> st.col]
    /\ repeated' = Repeats(last, last')
    /\ UNCHANGED <<crawlVars, mainVars, restVars>>

\* seed_reviews_to_mongo.upsert_many(col, docs)
upsert_many ==
    /\ pc = "idle"
    /\ \E docs \in SeqsUpTo(Docs, MaxDocs) : BulkUpsert("upsert_many", docs)

\* review_router.bulk_upsert_insert_only(col, docs)
bulk_upsert_insert_only ==
    /\ pc = "idle"
    /\ \E docs \in SeqsUpTo(Docs, MaxDocs) : BulkUpsert("bulk_upsert_insert_only", docs)

\* the chatbot graph is not invoked
NoGraph ==
    /\ node = "none"
    /\ state = [user_input |-> "none"]
    /\ trail = <<>>

\* the endpoint has not been called
NoResponse == [n |-> 0, status |-> "none"]

\* no function is called by itself
NoInput == [fn |-> "none"]
NoOutput == [fn |-> "none"]

\* the programs other than the crawlers and the bulk upserts are not running
RestIdle ==
    /\ input = NoInput
    /\ output = NoOutput
    /\ raw_col = {}
    /\ out_col = {}
    /\ resp = NoResponse
    /\ NoGraph

\* no crawler runs
NoRun == Run("none", 0, 0, Source(<<>>, 1, TRUE, "any", "nothing"))

\* a collection with some documents in it, and no call made yet
UpsertInit ==
    /\ run = NoRun
    /\ pc = "idle"
    /\ driver = "none"
    /\ rows = <<>>
    /\ seen = {}
    /\ rowIds = <<>>
    /\ loaded = 0
    /\ mode = "hundred"
    /\ stagnation = 0
    /\ last_count = 0
    /\ attempt = 0
    /\ slept = <<>>
    /\ batches = 0
    /\ idle = 0
    /\ stopped = "none"
    /\ entries = 0
    /\ expansions = 0
    /\ clicks = 0
    /\ page_no = 0
    /\ boundary = 0
    /\ exhausted = FALSE
    /\ page = 0
    /\ csv = <<>>
    /\ writeFailed = FALSE
    /\ plan = <<>>
    /\ finished = <<>>
    /\ col \in [Ids -> Fields \cup {"absent"}]
    /\ last = NoCall
    /\ repeated = FALSE
    /\ RestIdle

UpsertNext ==
    \/ upsert_many
    \/ bulk_upsert_insert_only

UpsertSpec == UpsertInit /\ [][UpsertNext]_vars


\* python main.py -c <crawler>
Init ==
    /\ run \in AladinRuns \cup KyoboRuns \cup Yes24Runs
    /\ pc = "start"
    /\ driver = "none"
    /\ rows = <<>>
    /\ seen = {}
    /\ rowIds = <<>>
    /\ loaded = 0
    /\ mode = "hundred"
    /\ stagnation = 0
    /\ last_count = 0
    /\ attempt = 0
    /\ slept = <<>>
    /\ batches = 0
    /\ idle = 0
    /\ stopped = "none"
    /\ entries = 0
    /\ expansions = 0
    /\ clicks = 0
    /\ page_no = 0
    /\ boundary = 0
    /\ exhausted = FALSE
    /\ page = 0
    /\ csv = <<>>
    /\ writeFailed = FALSE
    /\ plan = <<>>
    /\ finished = <<>>
    /\ col = EmptyCollection
    /\ last = NoCall
    /\ repeated = FALSE
    /\ RestIdle

Next ==
    \/ AladinStart
    \/ AladinExtract
    \/ AladinMore
    \/ AladinFallback
    \/ AladinExpand
    \/ AladinQuit
    \/ KyoboStart
    \/ KyoboOpen
    \/ KyoboPage
    \/ KyoboSave
    \/ KyoboExcept
    \/ KyoboShutdown
    \/ Yes24Start
    \/ Yes24Page
    \/ Yes24Quit
    \/ MainSave

Spec == Init /\ [][Next]_vars

\* python main.py -c yes24, the process running on for as long as it can
Yes24Init == Init /\ run.crawler = "yes24"

Yes24Next ==
    \/ Yes24Start
    \/ Yes24Page
    \/ Yes24Quit
    \/ MainSave

Yes24Spec == Yes24Init /\ [][Yes24Next]_vars /\ WF_vars(Yes24Next)

-----------------------------------------------------------------------------
(* python main.py --all *)

\* the keys of CRAWLER_CLASSES, in the order of the dict
CRAWLER_CLASSES == <<"kyobo", "yes24", "aladin">>

\* the runs of one crawler under --all: a small target on sources of fresh
\* reviews that may fail
AllRuns(crawler) ==
    {Run(crawler, MaxTarget, MaxStagnation, Source(FreshFeed(n), s, FALSE, "any", "nothing")) :
        n \in 1..MaxFeed, s \in 1..2}

\* the next turn of the for loop: a new object of the next crawler class
MainNextCrawler ==
    /\ pc = "done" /\ plan # <<>>
    /\ run' = Head(plan)
    /\ plan' = Tail(plan)
    /\ finished' = Append(finished, run.crawler)
    /\ pc' = "start"
    /\ driver' = "none"
    /\ rows' = <<>> /\ seen' = {} /\ rowIds' = <<>>
    /\ loaded' = 0 /\ mode' = "hundred" /\ stagnation' = 0 /\ last_count' = 0
    /\ attempt' = 0 /\ slept' = <<>> /\ batches' = 0 /\ idle' = 0
    /\ stopped' = "none"
    /\ entries' = 0 /\ expansions' = 0 /\ clicks' = 0
    /\ page_no' = 0 /\ boundary' = 0 /\ exhausted' = FALSE
    /\ page' = 0
    /\ csv' = <<>> /\ writeFailed' = FALSE
    /\ UNCHANGED <<dbVars, restVars>>

AllInit ==
    /\ run \in AllRuns(CRAWLER_CLASSES[1])
    /\ plan \in {<<y, a>> : y \in AllRuns(CRAWLER_CLASSES[2]),
                             a \in AllRuns(CRAWLER_CLASSES[3])}
    /\ finished = <<>>
    /\ pc = "start"
    /\ driver = "none"
    /\ rows = <<>>
    /\ seen = {}
    /\ rowIds = <<>>
    /\ loaded = 0
    /\ mode = "hundred"
    /\ stagnation = 0
    /\ last_count = 0
    /\ attempt = 0
    /\ slept = <<>>
    /\ batches = 0
    /\ idle = 0
    /\ stopped = "none"
    /\ entries = 0
    /\ expansions = 0
    /\ clicks = 0
    /\ page_no = 0
    /\ boundary = 0
    /\ exhausted = FALSE
    /\ page = 0
    /\ csv = <<>>
    /\ writeFailed = FALSE
    /\ col = EmptyCollection
    /\ last = NoCall
    /\ repeated = FALSE
    /\ RestIdle

AllNext ==
    \/ Next
    \/ MainNextCrawler

AllSpec == AllInit /\ [][AllNext]_vars

-----------------------------------------------------------------------------
(* Functions taken by themselves: a call of changed() and the keys that      *)
(* make_row_id, make_processed_id and _parse_one_card hash                   *)

MaxVisible == 2     \* most cards the page shows before or after an attempt

\* the crawler variables while no crawler runs
NoCrawl ==
    /\ run = NoRun
    /\ pc = "idle"
    /\ driver = "none"
    /\ rows = <<>>
    /\ seen = {}
    /\ rowIds = <<>>
    /\ loaded = 0
    /\ mode = "hundred"
    /\ stagnation = 0
    /\ last_count = 0
    /\ attempt = 0
    /\ slept = <<>>
    /\ batches = 0
    /\ idle = 0
    /\ stopped = "none"
    /\ entries = 0
    /\ expansions = 0
    /\ clicks = 0
    /\ page_no = 0
    /\ boundary = 0
    /\ exhausted = FALSE
    /\ page = 0
    /\ csv = <<>>
    /\ writeFailed = FALSE
    /\ plan = <<>>
    /\ finished = <<>>

\* no bulk upsert is made
NoDb ==
    /\ col = EmptyCollection
    /\ last = NoCall
    /\ repeated = FALSE

\* the cards before an attempt of _click_more_and_wait and the cards changed()
\* finds after it
ChangedInputs ==
    {[fn |-> "changed", before |-> b, after |-> a] :
        b \in SeqsUpTo(AladinCatalogue, MaxVisible),
        a \in SeqsUpTo(AladinCatalogue, MaxVisible)}

\* the field values the keys are built from: plain ones and ones that hold
\* the characters of the delimiters
KeySites == {<<"k">>}
KeyDates == {<<"d">>, <<"d", "|", "|", "4">>}
KeyRatings == {<<"4">>, <<"4", "|">>}
KeyContents == {<<"a">>, <<"|", "a">>, <<"4", "|", "|", "a">>}

KeyTuples ==
    {[site |-> s, date |-> d, rating |-> r, content |-> c] :
        s \in KeySites, d \in KeyDates, r \in KeyRatings, c \in KeyContents}

KeyFunctions == {"make_row_id", "make_processed_id", "_parse_one_card"}

\* two tuples handed to the same function
KeyInputs ==
    {[fn |-> f, one |-> t, other |-> u] :
        f \in KeyFunctions, t \in KeyTuples, u \in KeyTuples}

\* hashlib.sha256(key).hexdigest(): different keys have different digests
Sha256(key) == <<"sha256">> \o key

\* make_row_id: the key and its digest
make_row_id(site, date, rating, content) ==
    LET key == site \o <<"|", "|">> \o date \o <<"|", "|">> \o rating
                    \o <<"|", "|">> \o content
    IN  [key |-> key, id |-> Sha256(key)]

\* make_processed_id: the content is the cleaned one when the row has one
\* (content_clean or cleaned_content, <<>> when it has neither)
make_processed_id(site, row) ==
    LET content == IF row.content_clean # <<>> THEN row.content_clean
                   ELSE row.content
        key == site \o <<"|", "|">> \o row.date \o <<"|", "|">> \o row.rating
                    \o <<"|", "|">> \o content
    IN  [key |-> key, id |-> Sha256(key)]

\* the signature _parse_one_card hashes for a card without paper id
Aladin_sig(date, rating, content) ==
    LET sig == date \o <<"|">> \o rating \o <<"|">> \o content
    IN  [key |-> sig, id |-> Md5(sig)]

\* the key of tuple t under function fn
KeyOf(fn, t) ==
    CASE fn = "make_row_id" -> make_row_id(t.site, t.date, t.rating, t.content)
      [] fn = "make_processed_id" ->
            make_processed_id(t.site, [date |-> t.date, rating |-> t.rating,
                                       content |-> t.content,
                                       content_clean |-> <<>>])
      [] fn = "_parse_one_card" -> Aladin_sig(t.date, t.rating, t.content)

\* a call of changed() at the end of an attempt
changed ==
    /\ input.fn = "changed" /\ output = NoOutput
    /\ output' = [fn |-> "changed",
                  value |-> Aladin_changed(input.before, input.after)]
    /\ UNCHANGED <<crawlVars, mainVars, dbVars, input, prepVars, graphVars>>

\* the two tuples are turned into their keys and identities
make_keys ==
    /\ input.fn \in KeyFunctions /\ output = NoOutput
    /\ output' = [fn |-> input.fn,
                  one |-> KeyOf(input.fn, input.one),
                  other |-> KeyOf(input.fn, input.other)]
    /\ UNCHANGED <<crawlVars, mainVars, dbVars, input, prepVars, graphVars>>

FnInit ==
    /\ NoCrawl
    /\ NoDb
    /\ raw_col = {} /\ out_col = {} /\ resp = NoResponse
    /\ NoGraph
    /\ input \in ChangedInputs \cup KeyInputs
    /\ output = NoOutput

FnNext ==
    \/ changed
    \/ make_keys

FnSpec == FnInit /\ [][FnNext]_vars

-----------------------------------------------------------------------------
(* POST /review/preprocess/{site_name} of review_router.py, on the raw       *)
(* collection that seed_reviews_to_mongo.py fills                            *)

MaxCalls == 2       \* the calls of the endpoint that are counted

\* the site of the two collections
PrepSite == <<"y">>

\* len(content_clean) >= 5 of the processors
min_text_len == 5

\* the rows of the crawler's CSV file: a review that preprocessing leaves as
\* it is, one with a character that is cleaned away, one that is too short,
\* one with a rating out of range, one dated as Kyobo writes its dates
RawRows ==
    { [date |-> <<"2024", "-", "01">>, rating |-> <<"4">>,
       content |-> <<"a", "b", "c", "d", "e">>],
      [date |-> <<"2024", "-", "01">>, rating |-> <<"4">>,
       content |-> <<"a", "b", "c", "d", "e", "~">>],
      [date |-> <<"2024", "-", "01">>, rating |-> <<"4">>,
       content |-> <<"a", "b">>],
      [date |-> <<"2024", "-", "01">>, rating |-> <<"9">>,
       content |-> <<"a", "b", "c", "d", "e">>],
      [date |-> <<"2024", ".", "01">>, rating |-> <<"4">>,
       content |-> <<"a", "b", "c", "d", "f">>] }

\* seed_site: the document of a row, its _id made by make_row_id
RawDoc(row) ==
    [id |-> make_row_id(PrepSite, row.date, row.rating, row.content).id,
     date |-> row.date, rating |-> row.rating, content |-> row.content]

\* pd.to_datetime and the date as the CSV file of the result shows it
to_datetime(date) == [i \in 1..Len(date) |-> IF date[i] = "." THEN "-" ELSE date[i]]

\* re.sub(r"\s+", " ", s): every run of white space becomes one space
RECURSIVE CollapseSpaces(_)
CollapseSpaces(s) ==
    IF s = <<>> THEN <<>>
    ELSE IF IsSpace(s[1])
         THEN IF Len(s) >= 2 /\ IsSpace(s[2]) THEN CollapseSpaces(Tail(s))
              ELSE <<" ">> \o CollapseSpaces(Tail(s))
         ELSE <<s[1]>> \o CollapseSpaces(Tail(s))

\* clean_text: a character that is no letter, digit, space or plain
\* punctuation becomes a space, runs of spaces one space, then strip()
clean_text(text) ==
    Strip(CollapseSpaces([i \in 1..Len(text) |-> IF text[i] = "~" THEN " "
                                                  ELSE text[i]]))

\* the rating filter of preprocess(): 1 <= rating <= 5
RatingInRange(rating) == rating \in {<<"1">>, <<"2">>, <<"3">>, <<"4">>, <<"5">>}

\* processor.preprocess() over the raw documents: the rows it keeps
Processor_preprocess(docs) ==
    {[date |-> to_datetime(d.date), rating |-> d.rating, content |-> d.content,
      content_clean |-> clean_text(d.content)] :
        d \in {x \in docs : /\ RatingInRange(x.rating)
                            /\ Len(clean_text(x.content)) >= min_text_len}}

\* docs_out: the _ids make_processed_id gives the rows of the result
Docs_out(docs) == {make_processed_id(PrepSite, row).id : row \in Processor_preprocess(docs)}

\* the endpoint: 404 on an empty raw collection; else the raw documents whose
\* _id is not in the processed collection are preprocessed and upserted
preprocess ==
    /\ pc = "idle" /\ resp.n < MaxCalls
    /\ IF raw_col = {}
       THEN /\ resp' = [n |-> resp.n + 1, status |-> "404", raw |-> raw_col]
            /\ out_col' = out_col
       ELSE LET existing_ids == out_col
                to_process == {d \in raw_col : d.id \notin existing_ids}
                ids == Docs_out(to_process)
            IN  IF to_process = {}
                THEN /\ resp' = [n |-> resp.n + 1, status |-> "200", raw |-> raw_col,
                                 to_process_count |-> 0, ran |-> FALSE,
                                 inserted_new |-> 0]
                     /\ out_col' = out_col
                ELSE /\ resp' = [n |-> resp.n + 1, status |-> "200", raw |-> raw_col,
                                 to_process_count |-> Cardinality(to_process),
                                 ran |-> TRUE,
                                 inserted_new |-> Cardinality(ids \ out_col)]
                     /\ out_col' = out_col \cup ids
    /\ UNCHANGED <<crawlVars, mainVars, dbVars, fnVars, raw_col, graphVars>>

\* seed_site: the rows of the CSV file are upserted into the raw collection
seed_site ==
    /\ pc = "idle" /\ resp.n < MaxCalls
    /\ \E rs \in SUBSET RawRows :
          /\ rs # {}
          /\ raw_col' = raw_col \cup {RawDoc(row) : row \in rs}
          /\ raw_col' # raw_col
    /\ UNCHANGED <<crawlVars, mainVars, dbVars, fnVars, out_col, resp, graphVars>>

PrepInit ==
    /\ NoCrawl
    /\ NoDb
    /\ input = NoInput /\ output = NoOutput
    /\ raw_col = {} /\ out_col = {} /\ resp = NoResponse
    /\ NoGraph

PrepNext ==
    \/ preprocess
    \/ seed_site

PrepSpec == PrepInit /\ [][PrepNext]_vars

-----------------------------------------------------------------------------
(* The chatbot graph of st_app/graph: one graph.invoke(GraphState(...))      *)

MaxMessages == 2    \* most messages of earlier turns handed to an invocation

\* what the LLM may answer the router prompt with
RouterOutputs ==
    { <<"chat">>, <<" ", "Chat">>, <<"subject_info">>, <<"RAG_REVIEW", " ">>,
      <<"other">>, <<"chat", " ", "subject_info">>, <<>> }

\* what the LLM may answer the prompts of the other nodes with, stripped
Answers == {"", "text"}

\* str.lower(), word by word
Lower(s) ==
    [i \in 1..Len(s) |-> CASE s[i] = "Chat" -> "chat"
                           [] s[i] = "RAG_REVIEW" -> "rag_review"
                           [] OTHER -> s[i]]

\* the labels of the router
Routes == {"chat", "subject_info", "rag_review"}

\* the stripped and lowered content as the label, whatever it is
route_label_raw(content) ==
    LET label == Lower(Strip(content))
    IN  IF Len(label) = 1 THEN label[1] ELSE "other"

\* route_from_llm: the stripped and lowered content when it is one of the
\* three labels, else chat
route_label(content) ==
    LET label == Lower(Strip(content))
    IN  IF Len(label) = 1 /\ label[1] \in Routes THEN label[1] ELSE "chat"

\* GraphState(user_input=..., messages=...)
GraphState(user_input, messages) ==
    [user_input |-> user_input, messages |-> messages, route |-> "None",
     subject_key |-> "None", draft_response |-> "None", response |-> "None",
     retrieved_docs |-> "None"]

\* a node has run to its end with `llm` as the answer of its LLM call
Ran(name, llm) == trail' = Append(trail, [node |-> name, llm |-> llm])

\* a call inside a node raises: graph.invoke raises
Raises == node' = "raised" /\ UNCHANGED <<state, trail>>

\* the entry point, and the conditional edges that leave it
route_from_llm ==
    /\ node = "router"
    /\ \/ \E content \in RouterOutputs :
            /\ state' = [state EXCEPT !.route = route_label(content)]
            /\ node' = state'.route
            /\ Ran("router", content)
       \/ Raises
    /\ UNCHANGED <<crawlVars, mainVars, dbVars, fnVars, prepVars>>

\* subject_info_node, and its edge to chat
subject_info_node ==
    /\ node = "subject_info"
    /\ \/ \E draft \in {"no subjects", "which subject", "info"} :
            /\ state' = [state EXCEPT
                            !.draft_response = draft,
                            !.subject_key = IF draft = "info" THEN "key" ELSE @]
            /\ node' = "chat"
            /\ Ran("subject_info", IF draft = "no subjects" THEN "none" ELSE "key")
       \/ Raises
    /\ UNCHANGED <<crawlVars, mainVars, dbVars, fnVars, prepVars>>

\* rag_review_node, and its edge to chat
rag_review_node ==
    /\ node = "rag_review"
    /\ \/ \* retrieve() finds nothing
          /\ state' = [state EXCEPT !.draft_response = "no reviews"]
          /\ node' = "chat"
          /\ Ran("rag_review", "none")
       \/ \E answer \in Answers :
            /\ state' = [state EXCEPT !.draft_response = answer,
                                      !.retrieved_docs = "docs"]
            /\ node' = "chat"
            /\ Ran("rag_review", answer)
       \/ Raises
    /\ UNCHANGED <<crawlVars, mainVars, dbVars, fnVars, prepVars>>

\* chat_node, and its edge to END: a draft that is neither None nor empty is
\* finalized, else the chat prompt is answered
chat_node ==
    /\ node = "chat"
    /\ \/ \E answer \in Answers :
            /\ state' = [state EXCEPT !.response = answer,
                                      !.messages = @ + 2]
            /\ node' = "END"
            /\ Ran("chat", answer)
       \/ Raises
    /\ UNCHANGED <<crawlVars, mainVars, dbVars, fnVars, prepVars>>

\* graph.invoke on a fresh GraphState
GraphInit ==
    /\ NoCrawl
    /\ NoDb
    /\ input = NoInput /\ output = NoOutput
    /\ raw_col = {} /\ out_col = {} /\ resp = NoResponse
    /\ node = "router"
    /\ state \in {GraphState(u, m) : u \in {"hello", "about the book", "reviews?"},
                                     m \in {0, MaxMessages}}
    /\ trail = <<>>

GraphNext ==
    \/ route_from_llm
    \/ subject_info_node
    \/ rag_review_node
    \/ chat_node

\* the graph runner runs the next node for as long as there is one
GraphSpec == GraphInit /\ [][GraphNext]_vars /\ WF_vars(GraphNext)

-----------------------------------------------------------------------------
(* Properties *)

IsPrefix(s, t) == Len(s) <= Len(t) /\ SubSeq(t, 1, Len(s)) = s

\* the identity of the i-th collected record: Aladin's PaperId or signature,
\* Kyobo's (date, content), Yes24's content
IdentityOf(i) ==
    CASE run.crawler = "aladin" -> rowIds[i]
      [] run.crawler = "kyobo" -> <<rows[i].date, rows[i].content>>
      [] run.crawler = "yes24" -> rows[i].content

\* the identity a card of the site is collected under
CardIdentity(card) ==
    CASE run.crawler = "aladin" -> Aladin_parse_one_card(card).rid
      [] run.crawler = "kyobo" -> <<card.date, Strip(card.content)>>
      [] run.crawler = "yes24" -> Strip(card.content)

\* C1: No duplicates.  In every state of a run of any of the three crawlers
\* the collected records have pairwise different identities, every identity
\* of the seen-set is that of a collected record and conversely, so the
\* length of the collected list is the size of the seen-set.
C1_NoDuplicates ==
    /\ Len(rowIds) = Len(rows)
    /\ \A i, j \in 1..Len(rows) : i # j => IdentityOf(i) # IdentityOf(j)
    /\ seen = {IdentityOf(i) : i \in 1..Len(rows)}
    /\ Cardinality(seen) = Len(rows)

\* Aladin's second pass has run a batch over a page that shows two cards of
\* one identity, which is collected
C1_Witness ==
    /\ run.crawler = "aladin" /\ mode = "myreview" /\ batches >= 1
    /\ \E i, j \in 1..loaded :
          /\ i < j
          /\ CardIdentity(feed[i]) = CardIdentity(feed[j])
          /\ CardIdentity(feed[i]) \in seen

\* the content of a card after the crawler's normalization
NormalContent(card) ==
    IF run.crawler = "aladin" THEN Strip(ReplaceNbsp(card.content))
    ELSE Strip(card.content)

\* C2: Empty-content exclusion (Aladin, Yes24).  Every collected record has
\* a non-empty content that is in normal form, and no card of the site whose
\* normalized content is empty has its identity in the seen-set.
C2_EmptyContentExcluded ==
    run.crawler \in {"aladin", "yes24"} =>
        /\ \A i \in 1..Len(rows) :
              rows[i].content # <<>> /\ Strip(rows[i].content) = rows[i].content
        /\ \A k \in 1..Len(feed) :
              NormalContent(feed[k]) = <<>> => CardIdentity(feed[k]) \notin seen

\* Yes24 has gone through a first page that shows a blank review and has
\* collected a record from it
C2_Witness ==
    /\ run.crawler = "yes24" /\ page >= 2 /\ rows # <<>>
    /\ \E k \in 1..Len(Yes24Items(1)) : NormalContent(Yes24Items(1)[k]) = <<>>

\* C3: Empty-content exclusion (Kyobo), as claimed: every record the Kyobo
\* crawler retains has a date, a rating and a non-empty content.
C3_KyoboContentNonEmpty ==
    run.crawler = "kyobo" =>
        \A i \in 1..Len(rows) :
            rows[i].date # <<>> /\ rows[i].rating # <<>> /\ rows[i].content # <<>>

\* the scenario "3 fresh candidates per batch, target 5, stagnation limit 3"
FreshThreeRun == Run("aladin", 5, 3, Source(FreshFeed(6), 3, TRUE, "yes", "nothing"))

\* C4: Target-respecting termination.  The collected list never holds more
\* than target records; a loop left because the target was reached holds at
\* least (so exactly) target records; and on a source of 3 fresh candidates
\* per batch with target 5 the loop is only ever left at the target, with
\* exactly 5 records.
C4_TargetRespected ==
    /\ Len(rows) <= run.target
    /\ stopped = "target" => Len(rows) >= TARGET_COUNT
    /\ pc = "k_save" => Len(rows) >= KyoboTarget
    /\ (run = FreshThreeRun /\ stopped # "none") =>
            stopped = "target" /\ Len(rows) = 5

\* the scenario's loop has stopped at the target with 6 candidates loaded
C4_Witness ==
    /\ run = FreshThreeRun /\ stopped = "target"
    /\ loaded = 6 /\ Len(rows) = 5 /\ batches = 2

\* C5: Stagnation bound.  Within one call of _collect_loop the number of
\* consecutive batches that admitted nothing never exceeds STAGNATION_LIMIT,
\* the loop's counter is that number, and the loop is never about to extract
\* another batch once the number has reached STAGNATION_LIMIT.
C5_StagnationBound ==
    run.crawler = "aladin" =>
        /\ idle <= STAGNATION_LIMIT
        /\ pc \in {"extract", "more", "after_loop"} => stagnation = idle
        /\ pc = "extract" => idle < STAGNATION_LIMIT

\* the loop has been left for stagnation, after STAGNATION_LIMIT idle batches
C5_Witness ==
    /\ run.crawler = "aladin" /\ pc = "after_loop" /\ stopped = "stagnation"
    /\ idle = STAGNATION_LIMIT

\* the scenario "the same 2 candidates in every batch, target 10, limit 3"
SameTwoRun == Run("aladin", 10, 3, Source(FreshFeed(2), 2, TRUE, "any", "nothing"))

\* C6, as claimed: on that source the collection loop ends with exactly 2
\* records and stops for stagnation after exactly 3 no-progress batches.
C6_StopsForStagnation ==
    (run = SameTwoRun /\ stopped # "none") =>
        Len(rows) = 2 /\ stopped = "stagnation" /\ idle = 3

\* C6, amended: on that source every call of the collection loop ends with
\* exactly 2 records after a single extraction batch and stops because the
\* advance failed, not for stagnation; the first pass has no no-progress
\* batch and the fallback pass has one.
C6_StopsExhausted ==
    run = SameTwoRun =>
        /\ idle <= 1
        /\ stopped # "none" =>
              /\ Len(rows) = 2
              /\ stopped = "exhausted"
              /\ batches = 1
              /\ idle = IF mode = "hundred" THEN 0 ELSE 1

\* the first pass over the same 2 candidates has stopped
C6_Witness ==
    /\ run = SameTwoRun /\ mode = "hundred" /\ pc = "after_loop"
    /\ stopped = "exhausted" /\ Len(rows) = 2

\* the scenario "5 candidates, then no more-button and no advance, target 10"
FiveRun == Run("aladin", 10, 3, Source(FreshFeed(5), 5, TRUE, "no", "nothing"))

\* C7: Source exhausted.  On that source the loop stops at the first failed
\* advance attempt, with exactly the 5 records and after a single extraction
\* batch, and scrape_reviews ends with those 5 records.
C7_SourceExhausted ==
    run = FiveRun =>
        /\ attempt <= 1
        /\ stopped # "none" =>
              stopped = "exhausted" /\ Len(rows) = 5 /\ batches = 1
        /\ pc \in {"quit", "returned", "done"} => Len(rows) = 5

\* the first pass over the 5 candidates has stopped
C7_Witness ==
    /\ run = FiveRun /\ mode = "hundred" /\ pc = "after_loop"
    /\ stopped = "exhausted" /\ Len(rows) = 5 /\ batches = 1

C9_AladinPartialPersisted ==
    ( /\ run.crawler = "aladin" /\ pc = "raised"
      /\ batches >= checkpoint_every_pages /\ rows # <<>> )
    => csv # <<>> /\ csv[1] # <<>>

\* C10, as claimed: once scrape_reviews has returned or raised, no browser
\* session that it created is still open.
C10_SessionTornDown ==
    pc \in {"returned", "raised", "done"} => driver # "open"

\* C11: Upsert idempotence.  Two bulk upsert calls in a row with the same N
\* documents of pairwise different _id, none stored before: the first one
\* reports inserted = N, the second one inserted = 0 and matched = N, and
\* the collection after the second call is the collection after the first.
C11_UpsertIdempotent ==
    [][Repeats(last, last') =>
          /\ last.inserted = Len(last.docs)
          /\ last'.inserted = 0
          /\ last'.matched = Len(last.docs)
          /\ last'.before = last.after
          /\ last'.after = last.after
          /\ col' = col]_vars

\* the same two documents have been upserted twice in a row, and the second
\* call has reported them as matched
C11_Witness ==
    /\ repeated
    /\ Len(last.docs) = 2
    /\ last.matched = 2

\* C12: Insert-only persistence.  No step changes or removes the document
\* stored under an _id: what is stored before a bulk upsert call is stored
\* unchanged after it, whatever documents the call supplies.
C12_InsertOnly ==
    [][\A i \in Ids : col[i] # "absent" => col'[i] = col[i]]_vars

\* a call has returned that supplied, for a stored _id, a document with
\* other field values, and the stored document is the one from before
C12_Witness ==
    /\ last.fn # "none" /\ last.result = "returned"
    /\ \E d \in DocSet(last) :
          /\ last.before[d.id] \notin {"absent", d.fields}
          /\ col[d.id] = last.before[d.id]

\* C13, as claimed: when the Kyobo source has run out of pages before the
\* target was reached, scrape_reviews does not end by raising.
C13_ExhaustionIsNormal ==
    (run.crawler = "kyobo" /\ exhausted) => pc # "raised"

\* C14, as claimed: a Yes24 run whose source could not be initialised (its
\* loop over the review pages never began) does not return normally.
C14_Yes24InitFailureSurfaces ==
    (run.crawler = "yes24" /\ page = 0) => pc \notin {"returned", "done"}

\* the cards of a batch other than those at the positions of S
RECURSIVE CardsOutside(_, _, _)
CardsOutside(cards, i, S) ==
    IF i > Len(cards) THEN <<>>
    ELSE (IF i \in S THEN <<>> ELSE <<cards[i]>>) \o CardsOutside(cards, i + 1, S)

\* a Yes24 review group whose rating class is a number
Yes24Parses(card) == card.rating # <<"x">>

\* C15: Per-item failure isolation (Aladin, Yes24).  A batch in which the
\* extraction of some candidates raises leaves the collected list and the
\* seen-set exactly as the same batch without those candidates does: the
\* failing candidate changes nothing and the candidates after it are still
\* processed; and no such failure ends a Yes24 run with an exception.
C15_ItemFailureIsolated ==
    /\ (run.crawler = "aladin" /\ pc = "extract") =>
          \A stale \in Stale(loaded) :
              Aladin_extract_from_cards(AladinCards, stale)
                  = Aladin_extract_from_cards(CardsOutside(AladinCards, 1, stale), {})
    /\ (run.crawler = "yes24" /\ pc = "y_page") =>
          LET st == Yes24_scrape_page(Yes24Items(page))
              ok == Yes24_scrape_page(SelectSeq(Yes24Items(page), Yes24Parses))
          IN  st.rows = ok.rows /\ st.seen = ok.seen
    /\ (run.crawler = "yes24" /\ pc = "raised") => writeFailed

\* Yes24 has gone through a first page whose first group has a rating class
\* that is no number, and has collected the record of the group after it
C15_Witness ==
    /\ run.crawler = "yes24" /\ page >= 2
    /\ Len(Yes24Items(1)) = 2
    /\ ~Yes24Parses(Yes24Items(1)[1])
    /\ Yes24Parses(Yes24Items(1)[2])
    /\ Strip(Yes24Items(1)[2].content) \in seen
    /\ Len(rows) = 1

\* a Kyobo review item whose rating width converts to a number
KyoboParses(card) == Kyobo_parse_review(card).kind # "error"

\* C16, as claimed: a page of Kyobo review items some of which go stale or
\* fail to parse is scraped as the same page without those items is, and the
\* scraping of the page is not left by an exception.
C16_KyoboItemFailureIsolated ==
    (run.crawler = "kyobo" /\ pc = "k_page") =>
        \A stale \in Stale(Len(KyoboItems(page_no + 1))) :
            LET items == KyoboItems(page_no + 1)
                st == Kyobo_scrape_current_page(items, stale)
                ok == Kyobo_scrape_current_page(
                          SelectSeq(CardsOutside(items, 1, stale), KyoboParses), {})
            IN  ~st.raised /\ st.rows = ok.rows /\ st.seen = ok.seen

\* the header line save_to_database writes before the records rs: Aladin's
\* csv.writer row, the columns of Kyobo's DataFrame (the fields of ReviewRow
\* in their order; none for an empty list), Yes24's DictWriter fieldnames
csv_header(crawler, rs) ==
    CASE crawler = "aladin" -> <<"rating", "date", "content">>
      [] crawler = "kyobo" -> IF rs = <<>> THEN <<>> ELSE <<"date", "content", "rating">>
      [] crawler = "yes24" -> <<"rating", "date", "content">>

\* the output file as written: absent, or its header and its records
csv_file ==
    IF csv = <<>> THEN [exists |-> FALSE]
    ELSE [exists |-> TRUE, header |-> csv_header(run.crawler, csv[1]), records |-> csv[1]]

\* C17, as claimed: once main.py has saved a crawler's result, its output
\* file is there with the header rating,date,content followed by the
\* retained records in collection order, also when there is no record.
C17_OutputShape ==
    (pc = "done" /\ ~writeFailed) =>
        /\ csv_file.exists
        /\ csv_file.header = <<"rating", "date", "content">>
        /\ csv_file.records = rows

\* C18: First-observed order, append-only.  Every step of every crawler
\* leaves the collected list as it was or appends to it: the list before
\* the step is a prefix of the list after it, and so are the identities
\* under which the records were admitted; no identity leaves the seen-set.
\* This includes the expansion pass that ends Aladin's second loop.
C18_AppendOnly ==
    [][ /\ IsPrefix(rows, rows')
        /\ IsPrefix(rowIds, rowIds')
        /\ seen \subseteq seen' ]_vars

\* Aladin's expansion pass has admitted a record behind the ones collected
\* by the loops
C18_Witness ==
    /\ run.crawler = "aladin" /\ mode = "myreview" /\ pc = "quit"
    /\ last_count >= 1
    /\ Len(rows) > last_count

\* C20: Fatal-stop protocol (Kyobo).  When an exception has left the try
\* block, the next step is the checkpoint of everything collected (the file
\* then holds the collected list, or the write has failed), with the session
\* still open and the exception still pending whether the write failed or
\* not; the step after it quits the session and hands the exception to the
\* caller, leaving the file alone.
C20_FatalStopProtocol ==
    [][ /\ (run.crawler = "kyobo" /\ pc = "k_except") =>
              /\ pc' = "k_finally_raise"
              /\ driver' = "open"
              /\ rows' = rows
              /\ csv' = <<rows>> \/ writeFailed'
        /\ (run.crawler = "kyobo" /\ pc = "k_finally_raise") =>
              /\ pc' = "raised"
              /\ driver' = "quit"
              /\ rows' = rows /\ csv' = csv ]_vars

\* the handler's checkpoint has failed, and the exception of an unfinished
\* collection has still reached the caller, after the session was quit
C20_Witness ==
    /\ run.crawler = "kyobo" /\ pc = "raised" /\ driver = "quit"
    /\ page_no >= 1 /\ rows # <<>> /\ Len(rows) < KyoboTarget
    /\ writeFailed
    /\ csv = <<>> \/ csv[1] # rows

\* C19, as claimed: under --all, main.py does not end before every crawler
\* of CRAWLER_CLASSES has been run, however an earlier crawler's run ended;
\* the crawlers run in registry order.
C19_RunAll ==
    /\ pc = "raised" => plan = <<>>
    /\ finished = SubSeq(CRAWLER_CLASSES, 1, Len(finished))


\* C21, as stated: an attempt is judged successful exactly when there are
\* more visible cards than before or the set of visible identities is not
\* the set before, whichever way it changed.
C21_ChangedIffSetDiffers ==
    output.fn = "changed" =>
        (output.value <=>
            \/ Len(input.after) > Len(input.before)
            \/ Aladin_visible_card_signatures(input.after)
                  # Aladin_visible_card_signatures(input.before))

\* C29, as stated: two different tuples never have the same key, whatever
\* characters their fields hold, and equal tuples have equal identities.
C29_KeyInjective ==
    output.fn \in KeyFunctions =>
        /\ input.one # input.other => output.one.key # output.other.key
        /\ input.one = input.other => output.one.id = output.other.id


C23_StopBeforeAdvance ==
    (run.crawler = "aladin" /\ pc = "more") => stagnation < STAGNATION_LIMIT


\* what is left to a call of _collect_loop: the records still missing, each
\* worth a full run of the stagnation counter, and the rest of the current run
Aladin_variant ==
    (TARGET_COUNT - Len(rows)) * (STAGNATION_LIMIT + 1)
        + (STAGNATION_LIMIT - stagnation)

\* C24: each call of _collect_loop terminates when its calls return.  Every
\* iteration admits a new record, raises the stagnation counter or ends the
\* loop, so it lowers a measure that is never negative; the attempts of an
\* advance are bounded and leave the measure alone; hence the iterations of
\* one call number at most TARGET_COUNT * (STAGNATION_LIMIT + 1) +
\* STAGNATION_LIMIT.
C24_AladinTerminates ==
    [][run.crawler = "aladin" =>
          /\ (pc = "extract" /\ pc' # "raised") =>
                /\ \/ Len(rows') > Len(rows)
                   \/ stagnation' = stagnation + 1
                   \/ pc' = "after_loop"
                /\ batches' = batches + 1
                /\ Aladin_variant' < Aladin_variant
          /\ pc = "more" =>
                /\ Aladin_variant' = Aladin_variant
                /\ batches' = batches
                /\ pc' = "more" => attempt' = attempt + 1
                                      /\ attempt' <= MORE_MAX_ATTEMPTS
          /\ pc' \in {"extract", "more", "after_loop"} =>
                /\ Aladin_variant' >= 0
                /\ batches' + Aladin_variant'
                      <= TARGET_COUNT * (STAGNATION_LIMIT + 1) + STAGNATION_LIMIT]_vars

\* a call of the loop has ended after a batch that admitted a record and
\* later batches that admitted none
C24_Witness ==
    /\ run.crawler = "aladin" /\ pc = "after_loop"
    /\ batches >= 3 /\ Len(rows) >= 1 /\ idle >= 2 /\ idle < batches


\* C25, as stated: when every page load returns, the page loop of the Yes24
\* crawler is left sooner or later, also on a source that goes on showing
\* non-empty pages of reviews that were all seen before.
C25_Yes24Terminates == <>(pc # "start" /\ pc # "y_page")


\* the rows of a list, as a set
RowsOf(rs) == {rs[i] : i \in 1..Len(rs)}

\* the rows a Yes24 review group, or a Kyobo review item, gives when it is
\* the first one the crawler meets
Yes24Alone(card) ==
    RowsOf(Yes24_scrape_one([rows |-> <<>>, seen |-> {}, ids |-> <<>>, done |-> FALSE],
                            card).rows)
KyoboAlone(card) ==
    RowsOf(Kyobo_scrape_one([rows |-> <<>>, seen |-> {}, ids |-> <<>>, raised |-> FALSE],
                            card, FALSE).rows)

\* the Kyobo page of two reviews of the same date and text, rated 4 and 2
KyoboTwoRatingsRun ==
    Run("kyobo", 10, 0,
        Source(<<Card(<<>>, <<"4">>, <<"d1">>, <<"a">>),
                 Card(<<>>, <<"2">>, <<"d1">>, <<"a">>)>>,
               2, TRUE, "any", "nothing"))

\* C26, as stated: without a natural id, candidates that differ in date, in
\* rating or in content are different records, so below the target every
\* candidate of a scraped page that gives a row has its row (date, rating
\* and content) in the collected list of the Yes24 and the Kyobo crawler.
C26_IdentityCoversFields ==
    [][/\ (run.crawler = "yes24" /\ pc = "y_page" /\ page' # page
              /\ Len(rows') < target_count) =>
             \A i \in 1..Len(Yes24Items(page)) :
                 Yes24Alone(Yes24Items(page)[i]) \subseteq RowsOf(rows')
       /\ (run = KyoboTwoRatingsRun /\ pc = "k_page" /\ rows' # rows
              /\ Len(rows') < KyoboTarget) =>
             \A i \in 1..Len(KyoboItems(page_no')) :
                 KyoboAlone(KyoboItems(page_no')[i]) \subseteq RowsOf(rows')]_vars

\* C26 for the Kyobo crawler alone
C26_KyoboIdentityCoversFields ==
    [][(run = KyoboTwoRatingsRun /\ pc = "k_page" /\ rows' # rows
              /\ Len(rows') < KyoboTarget) =>
             \A i \in 1..Len(KyoboItems(page_no')) :
                 KyoboAlone(KyoboItems(page_no')[i]) \subseteq RowsOf(rows')]_vars


\* C27: Bounded secondary pass (Aladin).  A call of _collect_loop runs the
\* expansion pass at most once, only in "myreview" mode and only below the
\* target after the main loop; the pass makes at most max_clicks expand
\* clicks and one re-extraction, and never ends in an exception.  One
\* scrape_reviews enters the collection loop at most twice, the second time
\* only when the first pass ended below the target.
C27_BoundedSecondaryPass ==
    [][run.crawler = "aladin" =>
          /\ expansions' <= 1
          /\ expansions' > expansions =>
                /\ pc = "after_loop" /\ mode = "myreview"
                /\ Len(rows) < TARGET_COUNT
                /\ clicks' <= MaxClicks
                /\ pc' = "quit"
          /\ (pc = "after_loop" /\ mode = "myreview") =>
                /\ pc' = "quit"
                /\ Len(rows) < TARGET_COUNT => expansions' = 1
          /\ rows' # rows => pc = "extract" \/ expansions' > expansions
          /\ pc = "quit" => rows' = rows /\ expansions' = expansions
          /\ entries' <= 2
          /\ entries' > entries =>
                \/ entries = 0 /\ pc = "start"
                \/ /\ entries = 1 /\ pc = "after_loop" /\ mode = "hundred"
                   /\ Len(rows) < TARGET_COUNT
          /\ (pc = "after_loop" /\ mode = "hundred" /\ Len(rows) >= TARGET_COUNT)
                => entries' = entries /\ pc' = "quit"]_vars

\* scrape_reviews is about to quit after two calls of the loop and an
\* expansion pass that stopped clicking at max_clicks with more cards on the
\* page
C27_Witness ==
    /\ run.crawler = "aladin" /\ pc = "quit"
    /\ entries = 2 /\ expansions = 1
    /\ clicks = MaxClicks /\ loaded > MaxClicks


\* C28, as stated: once the endpoint has processed the raw collection, a
\* second call with the raw collection unchanged finds every raw _id among
\* the processed ones: to_process_count is 0, no processor is run and
\* inserted_new is 0.
C28_SkipsProcessed ==
    [][(resp.status = "200" /\ resp.raw = raw_col /\ resp'.n = resp.n + 1) =>
          /\ resp'.to_process_count = 0
          /\ ~resp'.ran
          /\ resp'.inserted_new = 0]_vars


\* the names of the nodes run so far
TrailNodes == [i \in 1..Len(trail) |-> trail[i].node]

\* the order in which an invocation runs its nodes, and what it has set
GraphOrder ==
    /\ Len(trail) <= 3
    /\ Len(trail) >= 1 =>
          /\ trail[1].node = "router"
          /\ state.route \in Routes
          /\ LET label == Lower(Strip(trail[1].llm))
             IN  state.route = IF label \in {<<r>> : r \in Routes} THEN label[1]
                               ELSE "chat"
    /\ \A i \in 2..Len(trail) : trail[i].node # "router"
    /\ \A i \in 1..Len(trail) :
          /\ trail[i].node = "chat" => i = Len(trail) /\ node \in {"END", "raised"}
          /\ trail[i].node \in {"subject_info", "rag_review"} =>
                /\ i = 2 /\ trail[i].node = state.route
                /\ node \in {"chat", "raised"} \/ (Len(trail) = 3 /\ trail[3].node = "chat")
    /\ node \in {"router", "chat", "subject_info", "rag_review", "END", "raised"}
    /\ node = "router" => trail = <<>>
    /\ node \in {"subject_info", "rag_review"} => TrailNodes = <<"router">>
    /\ node = "chat" => TrailNodes \in {<<"router">>, <<"router", state.route>>}
    /\ node = "END" =>
          /\ TrailNodes \in {<<"router", "chat">>, <<"router", state.route, "chat">>}
          /\ state.response # "None"

\* C30: Chatbot graph routing.  Whatever the LLM answers, the router sets
\* route to chat, subject_info or rag_review, any other label becoming chat.
\* An invocation runs at most three nodes: the router, then at most one of
\* subject_info and rag_review (the one the route names), then chat, once
\* and last; at END the response field is set; and every invocation gets to
\* END unless a call inside a node raises.
C30_GraphRouting == []GraphOrder /\ <>(node \in {"END", "raised"})

\* an invocation has reached END through the router, rag_review and chat,
\* the router having been answered with something that needed stripping and
\* lowering
C30_Witness ==
    /\ node = "END"
    /\ TrailNodes = <<"router", "rag_review", "chat">>
    /\ trail[1].llm = <<"RAG_REVIEW", " ">>
    /\ state.response = "text"

====
